---- MODULE Spec2Model ----
(***************************************************************************)
(* The artifact relationship engine of CEREBRO:                            *)
(*   logic/fuzzy_organizer.py  FuzzyOrganizer (weights, similarity, the    *)
(*                             scan for potential connections)             *)
(*   viz/graph_forest.py       build_artifact_graph                        *)
(*   db/database.py            the relationships table                     *)
(* Python floats are exact rationals [n, d] in lowest terms where a claim   *)
(* is about control flow, and IEEE 754 binary64 values where it is about   *)
(* the numbers themselves (SpecFloat).                                     *)
(***************************************************************************)
EXTENDS Integers, Sequences, FiniteSets, TLC

VARIABLES
    pc,        \* "new": no organizer yet; "idle": between calls; "returned": a call has returned
    supplied,  \* the weights handed to FuzzyOrganizer.__init__
    weights,   \* FuzzyOrganizer.weights, after _normalize_weights
    call,      \* the operation last called, with its arguments
    ret,       \* what that call returned (or the exception that escaped it)
    lib,       \* the answers fuzz.partial_ratio gave to the queries of that call
    logged,    \* the records the call handed to logging / print, in order
    args,      \* the objects handed to that call, as the call left them
    kept,      \* a graph an earlier build returned and its caller still holds
    db         \* the tables of cerebro_jesus.db

vars == <<pc, supplied, weights, call, ret, lib, logged, args, kept, db>>

----------------------------------------------------------------------------
(* Bounds of the model *)

MaxWeight == 3       \* explicit weights range over 0..MaxWeight
MaxCandidates == 3   \* all_artifacts holds at most this many candidates
MaxArtifacts == 3    \* artifacts holds at most this many dictionaries
MaxRelationships == 2 \* relationships holds at most this many dictionaries

----------------------------------------------------------------------------
(* Python floats as exact rationals *)

Abs(x) == IF x < 0 THEN -x ELSE x

RECURSIVE GCD(_, _)
GCD(a, b) == IF b = 0 THEN a ELSE GCD(b, a % b)

Rat(n, d) ==
    LET g == GCD(Abs(n), Abs(d))
        s == IF d < 0 THEN -1 ELSE 1
    IN  [n |-> (s * n) \div g, d |-> (s * d) \div g]

RatAdd(a, b) == Rat(a.n * b.d + b.n * a.d, a.d * b.d)
RatMul(a, b) == Rat(a.n * b.n, a.d * b.d)
RatDiv(a, b) == Rat(a.n * b.d, a.d * b.n)
RatGE(a, b) == a.n * b.d >= b.n * a.d
RatGT(a, b) == a.n * b.d > b.n * a.d
Zero == Rat(0, 1)
OfInt(i) == Rat(i, 1)

----------------------------------------------------------------------------
(* Python floats as IEEE 754 binary64, rounding included.                  *)
(* A natural number of any size is a little-endian sequence of limbs below *)
(* Base, without a leading zero limb (<<>> is 0).  A float is [m, e], the  *)
(* value m * 2^e, with m odd and of at most Precision bits, or Float0.     *)
(* Only the non-negative, normal floats are modelled.                      *)

LimbBits == 15
Base == 2^LimbBits
Precision == 53

RECURSIVE Big(_)
Big(n) == IF n = 0 THEN <<>> ELSE <<n % Base>> \o Big(n \div Base)

RECURSIVE Trim(_)
Trim(a) ==
    IF Len(a) > 0 /\ a[Len(a)] = 0 THEN Trim(SubSeq(a, 1, Len(a) - 1)) ELSE a

Limb(a, i) == IF i <= Len(a) THEN a[i] ELSE 0
Zeros(n) == [i \in 1..n |-> 0]

RECURSIVE AddFrom(_, _, _, _)
AddFrom(a, b, i, carry) ==
    IF i > Len(a) /\ i > Len(b)
    THEN Big(carry)
    ELSE LET s == Limb(a, i) + Limb(b, i) + carry
         IN  <<s % Base>> \o AddFrom(a, b, i + 1, s \div Base)

BigAdd(a, b) == Trim(AddFrom(a, b, 1, 0))

RECURSIVE MulSmallFrom(_, _, _, _)
MulSmallFrom(a, k, i, carry) ==
    IF i > Len(a)
    THEN Big(carry)
    ELSE LET p == a[i] * k + carry
         IN  <<p % Base>> \o MulSmallFrom(a, k, i + 1, p \div Base)

\* a * k for a limb k
BigMulSmall(a, k) == Trim(MulSmallFrom(a, k, 1, 0))

RECURSIVE MulFrom(_, _, _)
MulFrom(a, b, j) ==
    IF j > Len(b) THEN <<>>
    ELSE BigAdd(Zeros(j - 1) \o BigMulSmall(a, b[j]), MulFrom(a, b, j + 1))

BigMul(a, b) == MulFrom(a, b, 1)

\* a divided by a limb k, from the most significant limb down
RECURSIVE DivSmallFrom(_, _, _, _)
DivSmallFrom(a, k, i, rem) ==
    IF i = 0 THEN [q |-> <<>>, r |-> rem]
    ELSE LET cur == rem * Base + a[i]
             rest == DivSmallFrom(a, k, i - 1, cur % k)
         IN  [q |-> Append(rest.q, cur \div k), r |-> rest.r]

BigDivSmall(a, k) ==
    LET d == DivSmallFrom(a, k, Len(a), 0) IN [q |-> Trim(d.q), r |-> d.r]

\* a * 2^k and floor(a / 2^k)
BigShl(a, k) ==
    IF Len(a) = 0 THEN <<>>
    ELSE Zeros(k \div LimbBits) \o BigMulSmall(a, 2^(k % LimbBits))

BigShr(a, k) ==
    IF k \div LimbBits >= Len(a) THEN <<>>
    ELSE BigDivSmall(SubSeq(a, k \div LimbBits + 1, Len(a)), 2^(k % LimbBits)).q

RECURSIVE BitLenSmall(_)
BitLenSmall(n) == IF n = 0 THEN 0 ELSE 1 + BitLenSmall(n \div 2)

BitLen(a) ==
    IF Len(a) = 0 THEN 0 ELSE LimbBits * (Len(a) - 1) + BitLenSmall(a[Len(a)])

\* bit i of a, bit 0 the least significant
Bit(a, i) == (Limb(a, i \div LimbBits + 1) \div 2^(i % LimbBits)) % 2

\* a <= b
RECURSIVE LeqFrom(_, _, _)
LeqFrom(a, b, i) ==
    IF i = 0 THEN TRUE
    ELSE IF a[i] # b[i] THEN a[i] < b[i]
    ELSE LeqFrom(a, b, i - 1)

BigLeq(a, b) ==
    IF Len(a) # Len(b) THEN Len(a) < Len(b) ELSE LeqFrom(a, b, Len(a))

Float0 == [m |-> <<>>, e |-> 0]

\* the number of zero bits at the low end of a limb, and of a number above 0
RECURSIVE LowZerosSmall(_)
LowZerosSmall(n) == IF n % 2 = 1 THEN 0 ELSE 1 + LowZerosSmall(n \div 2)

RECURSIVE LowZerosFrom(_, _)
LowZerosFrom(a, i) ==
    IF a[i] = 0 THEN LimbBits + LowZerosFrom(a, i + 1) ELSE LowZerosSmall(a[i])

\* m * 2^e with the zero bits at the low end of m moved into e
Odd(m, e) ==
    LET zeros == LowZerosFrom(m, 1) IN [m |-> BigShr(m, zeros), e |-> e + zeros]

\* m * 2^e rounded to the nearest float, ties to the even mantissa
RoundToFloat(m, e) ==
    LET len == BitLen(m) IN
    IF len = 0 THEN Float0
    ELSE IF len <= Precision
    THEN Odd(m, e)
    ELSE LET shift == len - Precision
             q == BigShr(m, shift)
             half == Bit(m, shift - 1)
             sticky == BigShl(BigShr(m, shift - 1), shift - 1) # m
             up == half = 1 /\ (sticky \/ Bit(q, 0) = 1)
         IN  Odd(IF up THEN BigAdd(q, <<1>>) ELSE q, e + shift)

\* float(i) for a small non-negative int
FloatOfInt(i) == RoundToFloat(Big(i), 0)

Min(i, j) == IF i <= j THEN i ELSE j

\* x + y, x * y and x <= y on floats
FloatAdd(x, y) ==
    IF x = Float0 THEN y
    ELSE IF y = Float0 THEN x
    ELSE LET e == Min(x.e, y.e)
         IN  RoundToFloat(BigAdd(BigShl(x.m, x.e - e), BigShl(y.m, y.e - e)), e)

FloatMul(x, y) ==
    IF x = Float0 \/ y = Float0 THEN Float0
    ELSE RoundToFloat(BigMul(x.m, y.m), x.e + y.e)

FloatLeq(x, y) ==
    IF x = Float0 THEN TRUE
    ELSE IF y = Float0 THEN FALSE
    ELSE LET e == Min(x.e, y.e)
         IN  BigLeq(BigShl(x.m, x.e - e), BigShl(y.m, y.e - e))

\* a / b for two small ints a >= 0 and b > 0 (or the floats equal to them):
\* the quotient is computed with enough bits beyond Precision to round it,
\* the last one standing for a remainder that is not zero
IntTrueDiv(a, b) ==
    LET guard == Precision + LimbBits + 2
        d == BigDivSmall(BigShl(Big(a), guard), b)
    IN  RoundToFloat(BigAdd(BigMulSmall(d.q, 2), IF d.r = 0 THEN <<>> ELSE <<1>>),
                     0 - (guard + 1))

----------------------------------------------------------------------------
(* Python values *)

PyNone == "<None>"     \* None where a string is expected
NoneId == -1           \* None where an integer id is expected

Ok(v) == [raised |-> FALSE, value |-> v]
Raise(e) == [raised |-> TRUE, value |-> e]

\* getattr(obj, name, default)
GetAttr(obj, name, default) == IF name \in DOMAIN obj THEN obj[name] ELSE default

\* an object after the calls have read it: getattr, `is`, `not`, `!=` and
\* iteration look at an object and assign nothing to it
read_only(obj) == obj

\* the lists of at most n elements of S
SeqsUpTo(S, n) == UNION {[1..k -> S] : k \in 0..n}

----------------------------------------------------------------------------
(* FuzzyOrganizer.__init__ and _normalize_weights *)

Attrs == <<"title", "description", "content", "tags">>
AttrSet == {Attrs[i] : i \in 1..Len(Attrs)}

\* self.weights = {'title': title_weight, ...}
WeightDict(tw, dw, cw, gw) ==
    [k \in AttrSet |-> CASE k = "title" -> tw
                         [] k = "description" -> dw
                         [] k = "content" -> cw
                         [] k = "tags" -> gw]

\* sum(self.weights.values())
RECURSIVE SumValues(_, _)
SumValues(w, i) == IF i > Len(Attrs) THEN Zero ELSE RatAdd(w[Attrs[i]], SumValues(w, i + 1))

\* the mutation a forgotten key would make: the total leaves the tag weight out
total_weight_without_tags(w) == RatAdd(RatAdd(w["title"], w["description"]), w["content"])

total_weight(w) == SumValues(w, 1)

\* the mutation of falling back to zero weights instead of equal ones
equal_weight_zero(num_weights) == Zero

\* line 49
equal_weight(num_weights) == Rat(1, num_weights)

\* the mutation of dropping the test of line 45
is_zero_never(total) == FALSE

\* line 45
is_zero(total) == total = Zero

\* x / total: Python raises ZeroDivisionError when total is 0
divide(x, total) ==
    IF total = Zero THEN Raise("ZeroDivisionError") ELSE Ok(RatDiv(x, total))

_normalize_weights(w) ==
    LET total == total_weight(w) IN
    IF is_zero(total)
    THEN LET num_weights == Len(Attrs) IN
         IF num_weights > 0
         THEN Ok([k \in AttrSet |-> equal_weight(num_weights)])
         ELSE Ok(w)
    ELSE IF \E k \in AttrSet : divide(w[k], total).raised
    THEN Raise("ZeroDivisionError")
    ELSE Ok([k \in AttrSet |-> divide(w[k], total).value])

NoCall == [op |-> "none"]
NoRet == [raised |-> FALSE]
NoLib == <<>>
NoArgs == <<>>
NoBuild == [built |-> FALSE]
NoDb == <<>>

WeightValues == {OfInt(i) : i \in 0..MaxWeight}

\* FuzzyOrganizer(title_weight, description_weight, content_weight, tag_weight);
\* an exception leaves no organizer behind
Construct(tw, dw, cw, gw) ==
    /\ pc \in {"new", "idle"}
    /\ \E r \in {_normalize_weights(WeightDict(tw, dw, cw, gw))} :
         /\ ret' = IF r.raised THEN r ELSE NoRet
         /\ weights' = IF r.raised THEN weights ELSE r.value
         /\ pc' = IF r.raised THEN pc ELSE "idle"
         /\ logged' = IF r.raised THEN <<>>
                      ELSE IF is_zero(total_weight(WeightDict(tw, dw, cw, gw)))
                      THEN <<"WARNING", "DEBUG", "INFO">>
                      ELSE <<"DEBUG", "INFO">>
    /\ supplied' = WeightDict(tw, dw, cw, gw)
    /\ call' = [op |-> "__init__"]
    /\ lib' = NoLib
    /\ UNCHANGED <<args, kept, db>>

\* FuzzyOrganizer(): the default arguments 0.4, 0.3, 0.3, 0.3
ConstructDefault == Construct(Rat(4, 10), Rat(3, 10), Rat(3, 10), Rat(3, 10))

ConstructExplicit ==
    /\ pc \in {"new", "idle"}
    /\ \E tw, dw, cw, gw \in WeightValues : Construct(tw, dw, cw, gw)

InitNew ==
    /\ pc = "new"
    /\ supplied = <<>>
    /\ weights = <<>>
    /\ call = NoCall
    /\ ret = NoRet
    /\ lib = NoLib
    /\ logged = <<>>
    /\ args = NoArgs
    /\ kept = NoBuild
    /\ db = NoDb

NextWeights == ConstructDefault \/ ConstructExplicit

SpecWeights == InitNew /\ [][NextWeights]_vars

----------------------------------------------------------------------------
(* The comparators *)

\* the mutation of testing for None only
FalsyTextNoneOnly(text) == text = PyNone

\* `not x` for a string (None or '') and for a list ([])
FalsyText(text) == text = PyNone \/ text = ""
FalsyList(tags) == Len(tags) = 0

\* what fuzz.partial_ratio may answer for two different non-empty strings
LibScores == {0, 69, 70, 80}

\* fuzz.partial_ratio(s1, s2): 100 for equal strings, else the library's answer
partial_ratio(l, s1, s2) == IF s1 = s2 THEN 100 ELSE l[<<s1, s2>>]

\* the mutation of `and` for `or`
both_falsy(text1, text2) == FalsyText(text1) /\ FalsyText(text2)

\* line 60
either_falsy(text1, text2) == FalsyText(text1) \/ FalsyText(text2)

calculate_text_similarity(l, text1, text2) ==
    IF either_falsy(text1, text2)
    THEN Zero
    ELSE OfInt(partial_ratio(l, text1, text2))

\* str.lower() on the tags the model uses
UpperToLower == [Alpha |-> "alpha", Beta |-> "beta", Gamma |-> "gamma"]

\* the mutation of comparing the tags as they are
LowerSkipped(tag) == tag

Lower(tag) == IF tag \in DOMAIN UpperToLower THEN UpperToLower[tag] ELSE tag

\* set(tag.lower() for tag in tags)
LowerSet(tags) == {Lower(tags[i]) : i \in 1..Len(tags)}

\* the mutation of dividing by the size of the first set
first_size(set1, set2) == Cardinality(set1)

\* the mutation of dividing by the size of the larger set
larger_size(set1, set2) ==
    IF Cardinality(set1) >= Cardinality(set2) THEN Cardinality(set1) ELSE Cardinality(set2)

\* line 77
union_size_of(set1, set2) == Cardinality(set1 \cup set2)

\* tag.lower() raises AttributeError on a tag that is no string
HasNonString(tags) == \E i \in 1..Len(tags) : tags[i] = PyNone

calculate_tag_similarity(tags1, tags2) ==
    IF FalsyList(tags1) \/ FalsyList(tags2)
    THEN Ok(Zero)
    ELSE IF HasNonString(tags1) \/ HasNonString(tags2)
    THEN Raise("AttributeError")
    ELSE LET set1 == LowerSet(tags1)
             set2 == LowerSet(tags2)
             common_tags == set1 \cap set2
             union_size == union_size_of(set1, set2)
         IN  IF set1 = {} /\ set2 = {} THEN Ok(Zero)
             ELSE IF union_size = 0 THEN Ok(Zero)
             ELSE Ok(Rat(Cardinality(common_tags) * 100, union_size))

----------------------------------------------------------------------------
(* FuzzyOrganizer.calculate_artifact_similarity *)

TextAttrs == {"title", "description", "content"}

\* the mutation of a sum that forgets the tags
weighted_score_without_tags(w, title_sim, desc_sim, content_sim, tag_sim) ==
    RatAdd(RatAdd(RatMul(w["title"], title_sim),
                  RatMul(w["description"], desc_sim)),
           RatMul(w["content"], content_sim))

\* self.weights[...] * sim, summed over the four attributes
weighted_score(w, title_sim, desc_sim, content_sim, tag_sim) ==
    RatAdd(RatAdd(RatAdd(RatMul(w["title"], title_sim),
                         RatMul(w["description"], desc_sim)),
                  RatMul(w["content"], content_sim)),
           RatMul(w["tags"], tag_sim))

\* the mutation of dropping the guard of line 93
same_id_never(artifact1, artifact2) == FALSE

same_id(artifact1, artifact2) == artifact1.id = artifact2.id

calculate_artifact_similarity(w, l, artifact1, artifact2) ==
    IF "id" \notin DOMAIN artifact1 \/ "id" \notin DOMAIN artifact2
    THEN Raise("AttributeError")
    ELSE IF same_id(artifact1, artifact2)
    THEN Ok(Zero)
    ELSE LET title_sim == calculate_text_similarity(l,
                 GetAttr(artifact1, "title", ""), GetAttr(artifact2, "title", ""))
             desc_sim == calculate_text_similarity(l,
                 GetAttr(artifact1, "description", ""), GetAttr(artifact2, "description", ""))
             content_sim == calculate_text_similarity(l,
                 GetAttr(artifact1, "content", ""), GetAttr(artifact2, "content", ""))
             tag_sim == calculate_tag_similarity(
                 GetAttr(artifact1, "tags", <<>>), GetAttr(artifact2, "tags", <<>>))
         IN  IF tag_sim.raised
             THEN tag_sim
             ELSE Ok(weighted_score(w, title_sim, desc_sim, content_sim, tag_sim.value))

\* the pairs of strings one scoring hands to fuzz.partial_ratio
LibQueries(artifact1, artifact2) ==
    IF "id" \notin DOMAIN artifact1 \/ "id" \notin DOMAIN artifact2
    THEN {}
    ELSE IF same_id(artifact1, artifact2)
    THEN {}
    ELSE {q \in {<<GetAttr(artifact1, k, ""), GetAttr(artifact2, k, "")>> : k \in TextAttrs} :
            ~FalsyText(q[1]) /\ ~FalsyText(q[2]) /\ q[1] # q[2]}

\* an artifact object with all five attributes
Art(id, title, description, content, tags) ==
    [kind |-> "object", id |-> id, title |-> title, description |-> description,
     content |-> content, tags |-> tags]

\* the value None passed where an artifact is expected
NoneArtifact == [kind |-> "NoneType"]

\* the artifacts the similarity is computed on
SimArtifacts ==
    { Art(1, "a", "a", "a", <<"Alpha">>),
      Art(1, "b", "", "b", <<"alpha", "Beta">>),
      Art(2, "a", "a", "a", <<"Alpha">>),
      Art(2, "b", "b", PyNone, <<>>),
      Art(3, "", "", "", <<>>),
      [kind |-> "object", id |-> 3],
      [kind |-> "object", id |-> 4, title |-> "a", tags |-> <<"Alpha">>],
      [kind |-> "object", title |-> "a"] }

CalculateArtifactSimilarity(artifact1, artifact2) ==
    /\ pc = "idle"
    /\ \E l \in [LibQueries(artifact1, artifact2) -> LibScores] :
         \E r \in {calculate_artifact_similarity(weights, l, artifact1, artifact2)} :
         /\ lib' = l
         /\ ret' = r
         /\ logged' = IF ~r.raised /\ ~same_id(artifact1, artifact2)
                      THEN <<"DEBUG">> ELSE <<>>
    /\ call' = [op |-> "calculate_artifact_similarity",
                artifact1 |-> artifact1, artifact2 |-> artifact2]
    /\ args' = [artifact1 |-> read_only(artifact1), artifact2 |-> read_only(artifact2)]
    /\ pc' = "returned"
    /\ UNCHANGED <<supplied, weights, kept, db>>

\* the caller is done with the returned value
Return ==
    /\ pc = "returned"
    /\ pc' = "idle"
    /\ call' = NoCall
    /\ ret' = NoRet
    /\ lib' = NoLib
    /\ logged' = <<>>
    /\ args' = NoArgs
    /\ UNCHANGED <<supplied, weights, kept, db>>

\* a caller scores some pair of artifacts
SimilarityCall ==
    /\ pc = "idle"
    /\ \E artifact1, artifact2 \in SimArtifacts :
         CalculateArtifactSimilarity(artifact1, artifact2)

NextSimilarity == ConstructDefault \/ ConstructExplicit \/ SimilarityCall \/ Return

SpecSimilarity == InitNew /\ [][NextSimilarity]_vars

----------------------------------------------------------------------------
(* The same lines computed as CPython computes them, in binary64, for an   *)
(* organizer constructed from int weights: FuzzyOrganizer(1, 4, 4, 2).     *)
(* The specifications above and below compute in exact arithmetic, which   *)
(* is cheaper and leaves the control flow as it is.                        *)

MaxIntWeight == 4    \* int weights range over 0..MaxIntWeight
MaxScale == 2        \* the weights are scaled by 1..MaxScale

\* sum(self.weights.values()) of four ints
total_weight64(w) == w["title"] + w["description"] + w["content"] + w["tags"]

\* the mutation of leaving the weights as they were supplied
true_divide_skipped(x, total) == FloatOfInt(x)

\* line 54: self.weights[key] /= total_weight
true_divide(x, total) == IntTrueDiv(x, total)

_normalize_weights64(w) ==
    LET total == total_weight64(w) IN
    IF total = 0
    THEN LET num_weights == Len(Attrs) IN
         IF num_weights > 0
         THEN [k \in AttrSet |-> IntTrueDiv(1, num_weights)]
         ELSE [k \in AttrSet |-> FloatOfInt(w[k])]
    ELSE [k \in AttrSet |-> true_divide(w[k], total)]

\* fuzz.partial_ratio returns an int, which the product of line 103 converts
calculate_text_similarity64(l, text1, text2) ==
    IF either_falsy(text1, text2)
    THEN Float0
    ELSE FloatOfInt(partial_ratio(l, text1, text2))

calculate_tag_similarity64(tags1, tags2) ==
    IF FalsyList(tags1) \/ FalsyList(tags2)
    THEN Ok(Float0)
    ELSE IF HasNonString(tags1) \/ HasNonString(tags2)
    THEN Raise("AttributeError")
    ELSE LET set1 == LowerSet(tags1)
             set2 == LowerSet(tags2)
             common_tags == set1 \cap set2
             union_size == union_size_of(set1, set2)
         IN  IF set1 = {} /\ set2 = {} THEN Ok(Float0)
             ELSE IF union_size = 0 THEN Ok(Float0)
             ELSE Ok(FloatMul(IntTrueDiv(Cardinality(common_tags), union_size),
                              FloatOfInt(100)))

\* lines 102-107: every product and every sum is rounded, left to right
weighted_score64(w, title_sim, desc_sim, content_sim, tag_sim) ==
    FloatAdd(FloatAdd(FloatAdd(FloatMul(w["title"], title_sim),
                               FloatMul(w["description"], desc_sim)),
                      FloatMul(w["content"], content_sim)),
             FloatMul(w["tags"], tag_sim))

calculate_artifact_similarity64(w, l, artifact1, artifact2) ==
    IF "id" \notin DOMAIN artifact1 \/ "id" \notin DOMAIN artifact2
    THEN Raise("AttributeError")
    ELSE IF same_id(artifact1, artifact2)
    THEN Ok(Float0)
    ELSE LET title_sim == calculate_text_similarity64(l,
                 GetAttr(artifact1, "title", ""), GetAttr(artifact2, "title", ""))
             desc_sim == calculate_text_similarity64(l,
                 GetAttr(artifact1, "description", ""), GetAttr(artifact2, "description", ""))
             content_sim == calculate_text_similarity64(l,
                 GetAttr(artifact1, "content", ""), GetAttr(artifact2, "content", ""))
             tag_sim == calculate_tag_similarity64(
                 GetAttr(artifact1, "tags", <<>>), GetAttr(artifact2, "tags", <<>>))
         IN  IF tag_sim.raised
             THEN tag_sim
             ELSE Ok(weighted_score64(w, title_sim, desc_sim, content_sim, tag_sim.value))

IntWeightValues == 0..MaxIntWeight

\* FuzzyOrganizer(tw, dw, cw, gw) with four ints
ConstructInts ==
    /\ pc = "new"
    /\ \E tw, dw, cw, gw \in IntWeightValues :
         /\ supplied' = WeightDict(tw, dw, cw, gw)
         /\ weights' = _normalize_weights64(WeightDict(tw, dw, cw, gw))
         /\ logged' = IF total_weight64(WeightDict(tw, dw, cw, gw)) = 0
                      THEN <<"WARNING", "DEBUG", "INFO">>
                      ELSE <<"DEBUG", "INFO">>
    /\ pc' = "idle"
    /\ call' = [op |-> "__init__"]
    /\ ret' = NoRet
    /\ lib' = NoLib
    /\ UNCHANGED <<args, kept, db>>

\* the artifacts the rounded similarity is computed on: the first two agree
\* on every attribute, the third shares one tag of three with them
FloatArtifacts ==
    { Art(1, "a", "a", "a", <<"Alpha">>),
      Art(2, "a", "a", "a", <<"alpha">>),
      Art(3, "b", "a", "", <<"Alpha", "Beta", "Gamma">>) }

CalculateArtifactSimilarity64(artifact1, artifact2) ==
    /\ pc = "idle"
    /\ \E l \in [LibQueries(artifact1, artifact2) -> LibScores] :
         \E r \in {calculate_artifact_similarity64(weights, l, artifact1, artifact2)} :
         /\ lib' = l
         /\ ret' = r
         /\ logged' = IF ~r.raised /\ ~same_id(artifact1, artifact2)
                      THEN <<"DEBUG">> ELSE <<>>
    /\ call' = [op |-> "calculate_artifact_similarity",
                artifact1 |-> artifact1, artifact2 |-> artifact2]
    /\ args' = [artifact1 |-> read_only(artifact1), artifact2 |-> read_only(artifact2)]
    /\ pc' = "returned"
    /\ UNCHANGED <<supplied, weights, kept, db>>

SimilarityCall64 ==
    /\ pc = "idle"
    /\ \E artifact1, artifact2 \in FloatArtifacts :
         CalculateArtifactSimilarity64(artifact1, artifact2)

NextFloat == ConstructInts \/ SimilarityCall64 \/ Return

SpecFloat == InitNew /\ [][NextFloat]_vars

----------------------------------------------------------------------------
(* The two comparators called on their own *)

MaxTags == 2     \* a tag list holds at most this many tags

\* the tags and the texts the comparators are called on
TagPool == {"Alpha", "alpha", "Beta", "Gamma"}
TextPool == {PyNone, "", "a", "b"}

CalculateTagSimilarity(tags1, tags2) ==
    /\ pc = "idle"
    /\ ret' = calculate_tag_similarity64(tags1, tags2)
    /\ call' = [op |-> "calculate_tag_similarity", tags1 |-> tags1, tags2 |-> tags2]
    /\ pc' = "returned"
    /\ lib' = NoLib
    /\ logged' = <<>>
    /\ UNCHANGED <<supplied, weights, args, kept, db>>

\* the pair of strings handed to fuzz.partial_ratio, if any
TextQueries(text1, text2) ==
    IF either_falsy(text1, text2) \/ text1 = text2 THEN {} ELSE {<<text1, text2>>}

CalculateTextSimilarity(text1, text2) ==
    /\ pc = "idle"
    /\ \E l \in [TextQueries(text1, text2) -> LibScores] :
         /\ lib' = l
         /\ ret' = Ok(calculate_text_similarity64(l, text1, text2))
    /\ call' = [op |-> "calculate_text_similarity", text1 |-> text1, text2 |-> text2]
    /\ pc' = "returned"
    /\ logged' = <<>>
    /\ UNCHANGED <<supplied, weights, args, kept, db>>

TagCall ==
    /\ pc = "idle"
    /\ \E tags1, tags2 \in SeqsUpTo(TagPool, MaxTags) : CalculateTagSimilarity(tags1, tags2)

TextCall ==
    /\ pc = "idle"
    /\ \E text1, text2 \in TextPool : CalculateTextSimilarity(text1, text2)

NextComparators == ConstructDefault \/ TagCall \/ TextCall \/ Return

SpecComparators == InitNew /\ [][NextComparators]_vars

----------------------------------------------------------------------------
(* FuzzyOrganizer.find_potential_connections *)

\* `artifact` as a condition: None is false, an object is true
Truthy(artifact) == artifact.kind # "NoneType"

\* the mutation of forgetting to exclude the target
is_candidate_with_id(target_artifact, artifact) ==
    /\ Truthy(artifact)
    /\ GetAttr(artifact, "id", NoneId) # NoneId

\* line 138: the candidate is valid and is not the target itself
is_candidate(target_artifact, artifact) ==
    /\ Truthy(artifact)
    /\ GetAttr(artifact, "id", NoneId) # NoneId
    /\ artifact.id # GetAttr(target_artifact, "id", NoneId)

\* the mutation of a strict comparison
meets_threshold_strictly(score, threshold) == RatGT(score, OfInt(threshold))

\* line 141
meets_threshold(score, threshold) == RatGE(score, OfInt(threshold))

\* the mutation of scoring outside the try block
caught_nothing(e) == FALSE

\* `except Exception`: every exception the scoring raises is an Exception
caught(e) == e \in {"AttributeError", "TypeError", "KeyError", "ValueError"}

\* the mutation of a sort that puts an item before the items of its score
RECURSIVE insert_desc_before_ties(_, _, _)
insert_desc_before_ties(sorted, item, j) ==
    IF j > Len(sorted) THEN Append(sorted, item)
    ELSE IF RatGE(item[2], sorted[j][2])
    THEN SubSeq(sorted, 1, j - 1) \o <<item>> \o SubSeq(sorted, j, Len(sorted))
    ELSE insert_desc_before_ties(sorted, item, j + 1)

\* list.sort(key=lambda item: item[1], reverse=True): stable, descending.
\* The item goes behind every item whose score is not smaller.
RECURSIVE insert_desc(_, _, _)
insert_desc(sorted, item, j) ==
    IF j > Len(sorted) THEN Append(sorted, item)
    ELSE IF RatGT(item[2], sorted[j][2])
    THEN SubSeq(sorted, 1, j - 1) \o <<item>> \o SubSeq(sorted, j, Len(sorted))
    ELSE insert_desc(sorted, item, j + 1)

RECURSIVE sort_from(_, _, _)
sort_from(items, i, sorted) ==
    IF i > Len(items) THEN sorted
    ELSE sort_from(items, i + 1, insert_desc(sorted, items[i], 1))

\* the mutation of leaving the optional sort out
sort_skipped(potential_connections) == potential_connections

\* the mutation of breaking ties by ascending id
RECURSIVE insert_desc_by_id(_, _, _)
insert_desc_by_id(sorted, item, j) ==
    IF j > Len(sorted) THEN Append(sorted, item)
    ELSE IF \/ RatGT(item[2], sorted[j][2])
            \/ (item[2] = sorted[j][2] /\ item[1].id < sorted[j][1].id)
    THEN SubSeq(sorted, 1, j - 1) \o <<item>> \o SubSeq(sorted, j, Len(sorted))
    ELSE insert_desc_by_id(sorted, item, j + 1)

RECURSIVE sort_from_by_id(_, _, _)
sort_from_by_id(items, i, sorted) ==
    IF i > Len(items) THEN sorted
    ELSE sort_from_by_id(items, i + 1, insert_desc_by_id(sorted, items[i], 1))

sort_by_score_then_id(potential_connections) ==
    sort_from_by_id(potential_connections, 1, <<>>)

\* the mutation of sorting without reverse=True
sort_ascending(potential_connections) ==
    LET sorted == sort_from(potential_connections, 1, <<>>)
    IN  [i \in 1..Len(sorted) |-> sorted[Len(sorted) + 1 - i]]

sort_by_score(potential_connections) == sort_from(potential_connections, 1, <<>>)

\* one pass of the loop body of lines 136-144 for the candidate at position i;
\* scored lists the positions whose candidate was handed to
\* calculate_artifact_similarity, logged the positions an error was logged for
scan_one(w, l, target_artifact, all_artifacts, threshold, i, acc) ==
    LET artifact == all_artifacts[i] IN
    IF acc.escaped # "" THEN acc
    ELSE IF ~is_candidate(target_artifact, artifact) THEN acc
    ELSE LET r == calculate_artifact_similarity(w, l, target_artifact, artifact) IN
         IF r.raised
         THEN IF caught(r.value)
              THEN [acc EXCEPT !.scored = Append(@, i),
                               !.logged = Append(@, [level |-> "ERROR", position |-> i])]
              ELSE [acc EXCEPT !.scored = Append(@, i), !.escaped = r.value]
         ELSE IF meets_threshold(r.value, threshold)
         THEN [acc EXCEPT !.scored = Append(@, i),
                          !.potential_connections = Append(@, <<artifact, r.value>>)]
         ELSE [acc EXCEPT !.scored = Append(@, i)]

RECURSIVE scan(_, _, _, _, _, _, _)
scan(w, l, target_artifact, all_artifacts, threshold, i, acc) ==
    IF i > Len(all_artifacts) THEN acc
    ELSE scan(w, l, target_artifact, all_artifacts, threshold, i + 1,
              scan_one(w, l, target_artifact, all_artifacts, threshold, i, acc))

\* the mutation of dropping the test of line 129
no_artifacts_never(absent, all_artifacts) == FALSE

\* line 129, `not all_artifacts`: None and the empty list are false
no_artifacts(absent, all_artifacts) == absent \/ Len(all_artifacts) = 0

\* the mutation of another default
threshold_raised == 70 + 10

\* line 114: threshold: int = 70
threshold_default == 70

\* the mutation of sorting the list of the caller in place
all_artifacts_reversed(all_artifacts) ==
    [i \in 1..Len(all_artifacts) |-> all_artifacts[Len(all_artifacts) + 1 - i]]

\* lines 131-148: the tuples are appended to potential_connections, a list
\* of the call's own, and that list is the one sorted; all_artifacts is
\* iterated and stays as it was given
all_artifacts_after(all_artifacts) == read_only(all_artifacts)

\* all_artifacts is a list, or None: then absent holds (and all_artifacts is
\* <<>>).  None passes the test of line 129; the loop of line 136 would raise
\* TypeError on it
find_potential_connections(w, l, target_artifact, absent, all_artifacts, threshold) ==
    IF no_artifacts(absent, all_artifacts)
    THEN [raised |-> FALSE, value |-> <<>>, scored |-> <<>>,
          logged |-> <<[level |-> "INFO", position |-> 0]>>]
    ELSE IF absent
    THEN [raised |-> TRUE, value |-> "TypeError", scored |-> <<>>,
          logged |-> <<[level |-> "INFO", position |-> 0]>>]
    ELSE LET start == [potential_connections |-> <<>>, scored |-> <<>>,
                       logged |-> <<[level |-> "INFO", position |-> 0]>>, escaped |-> ""]
             acc == scan(w, l, target_artifact, all_artifacts, threshold, 1, start)
         IN  IF acc.escaped # ""
             THEN [raised |-> TRUE, value |-> acc.escaped, scored |-> acc.scored,
                   logged |-> acc.logged]
             ELSE [raised |-> FALSE, value |-> sort_by_score(acc.potential_connections),
                   scored |-> acc.scored,
                   logged |-> Append(acc.logged, [level |-> "INFO", position |-> 0])]

\* the pairs of strings one scan hands to fuzz.partial_ratio
FindQueries(target_artifact, all_artifacts) ==
    UNION {IF is_candidate(target_artifact, all_artifacts[i])
           THEN LibQueries(target_artifact, all_artifacts[i]) ELSE {}
           : i \in 1..Len(all_artifacts)}

\* the targets of the scans
FindTargets ==
    { Art(1, "a", "", "", <<"Alpha">>),
      [kind |-> "object", title |-> "a"] }

\* the candidates of the scans
FindCandidates ==
    { NoneArtifact,
      [kind |-> "object", title |-> "b"],
      Art(NoneId, "b", "", "", <<>>),
      Art(1, "b", "", "", <<>>),
      Art(2, "b", "", "", <<>>),
      Art(3, "c", "", "", <<"alpha">>),
      Art(4, "d", "", "", <<>>),
      Art(5, "b", "", "", <<PyNone>>) }

\* the thresholds callers pass; a caller that passes none gets the default
Thresholds == {80}

\* passed tells whether the caller gave a threshold; threshold is the value
\* the parameter is bound to
FindPotentialConnections(target_artifact, absent, all_artifacts, passed, threshold) ==
    /\ pc = "idle"
    /\ \E l \in [FindQueries(target_artifact, all_artifacts) -> LibScores] :
         \E r \in {find_potential_connections(weights, l, target_artifact, absent,
                                                all_artifacts, threshold)} :
         /\ lib' = l
         /\ ret' = [raised |-> r.raised, value |-> r.value, scored |-> r.scored]
         /\ logged' = r.logged
         /\ args' = [target_artifact |-> read_only(target_artifact),
                     all_artifacts |-> all_artifacts_after(all_artifacts)]
    /\ call' = [op |-> "find_potential_connections", target_artifact |-> target_artifact,
                absent |-> absent, all_artifacts |-> all_artifacts,
                passed |-> passed, threshold |-> threshold]
    /\ pc' = "returned"
    /\ UNCHANGED <<supplied, weights, kept, db>>

\* the organizers the scans run on: title only, and title and tags alike
FindOrganizers ==
    { WeightDict(OfInt(1), Zero, Zero, Zero),
      WeightDict(OfInt(1), Zero, Zero, OfInt(1)) }

InitFind ==
    /\ pc = "idle"
    /\ supplied \in FindOrganizers
    /\ weights = _normalize_weights(supplied).value
    /\ call = NoCall
    /\ ret = NoRet
    /\ lib = NoLib
    /\ logged = <<>>
    /\ args = NoArgs
    /\ kept = NoBuild
    /\ db = NoDb

\* a caller scans some candidates for some target: with a threshold, without
\* one, or with None for the candidates
FindCall ==
    /\ pc = "idle"
    /\ \E target_artifact \in FindTargets :
         \E given \in {<<TRUE, threshold>> : threshold \in Thresholds}
                        \cup {<<FALSE, threshold_default>>} :
           \/ \E all_artifacts \in SeqsUpTo(FindCandidates, MaxCandidates) :
                FindPotentialConnections(target_artifact, FALSE, all_artifacts,
                                         given[1], given[2])
           \/ FindPotentialConnections(target_artifact, TRUE, <<>>, given[1], given[2])

NextFind == FindCall \/ Return

SpecFind == InitFind /\ [][NextFind]_vars

\* one organizer serving calls of both operations, in any order
NextCalls == SimilarityCall \/ FindCall \/ Return

SpecCalls == InitFind /\ [][NextCalls]_vars

----------------------------------------------------------------------------
(* viz/graph_forest.py: build_artifact_graph *)

NODE_COLORS ==
    [Project |-> "skyblue", Artifact |-> "lightgreen", Tag |-> "orange",
     Relationship |-> "red"]

EDGE_COLORS ==
    ("Parent-Child" :> "gray") @@ ("Related" :> "purple") @@ ("FuzzyLink" :> "blue")

\* dict.get(key, default)
DictGet(dict, key, default) == IF key \in DOMAIN dict THEN dict[key] ELSE default

\* nx.Graph(): nodes maps a node to its attributes, edges an unordered pair
\* {u, v} (or {u} for a loop) to its attributes
EmptyGraph == [nodes |-> <<>>, edges |-> <<>>]

\* G.add_node(n, **attr): a node already there has its attributes replaced
add_node(G, n, attr) == [G EXCEPT !.nodes = (n :> attr) @@ @]

\* the mutation of an edge that keeps the attributes it was first given
add_edge_once(G, u, v, attr) ==
    [nodes |-> G.nodes @@ (u :> <<>>) @@ (v :> <<>>),
     edges |-> G.edges @@ ({u, v} :> attr)]

\* G.add_edge(u, v, **attr): endpoints not yet nodes are added without
\* attributes; an edge already there has its attributes replaced
add_edge(G, u, v, attr) ==
    [nodes |-> G.nodes @@ (u :> <<>>) @@ (v :> <<>>),
     edges |-> ({u, v} :> attr) @@ G.edges]

\* the mutation of testing the source only
source_in_G(G, rel) == rel.source \in DOMAIN G.nodes

\* line 88
both_in_G(G, rel) == rel.source \in DOMAIN G.nodes /\ rel.target \in DOMAIN G.nodes

\* the mutation of dropping the relationship without a word
on_dangling_silent(acc, rel) == acc

\* line 96: the relationship is skipped with a printed warning
on_dangling(acc, rel) ==
    [acc EXCEPT !.printed =
        Append(@, [level |-> "print", source |-> rel.source, target |-> rel.target])]

\* the mutation of another color for the types NODE_COLORS does not know
node_attributes_gray(artifact) ==
    [title |-> artifact.title,
     type |-> artifact.type,
     description |-> artifact.description,
     color |-> DictGet(NODE_COLORS, artifact.type, "gray")]

\* lines 80-83: the attributes of the node of an artifact
node_attributes(artifact) ==
    [title |-> artifact.title,
     type |-> artifact.type,
     description |-> artifact.description,
     color |-> DictGet(NODE_COLORS, artifact.type, "lightgray")]

RECURSIVE add_nodes(_, _, _)
add_nodes(artifacts, i, G) ==
    IF i > Len(artifacts) THEN G
    ELSE add_nodes(artifacts, i + 1,
           add_node(G, artifacts[i].id, node_attributes(artifacts[i])))

\* the loop of lines 86-96; printed collects the warnings
RECURSIVE add_edges(_, _, _)
add_edges(relationships, i, acc) ==
    IF i > Len(relationships) THEN acc
    ELSE LET rel == relationships[i] IN
         add_edges(relationships, i + 1,
           IF both_in_G(acc.G, rel)
           THEN [acc EXCEPT !.G = add_edge(acc.G, rel.source, rel.target,
                                     [type |-> rel.type, score |-> rel.score,
                                      color |-> DictGet(EDGE_COLORS, rel.type, "black")])]
           ELSE on_dangling(acc, rel))

build_artifact_graph(artifacts, relationships) ==
    add_edges(relationships, 1,
              [G |-> add_nodes(artifacts, 1, EmptyGraph), printed |-> <<>>])

\* the artifact dictionaries fetch_graph_data hands over
GraphArtifacts ==
    { [id |-> 1, title |-> "t1", type |-> "Artifact", description |-> "d1"],
      [id |-> 1, title |-> "t1", type |-> "Mystery", description |-> "d1"],
      [id |-> 2, title |-> "t2", type |-> "Project", description |-> "d2"],
      [id |-> 3, title |-> "t3", type |-> "Tag", description |-> "d3"] }

\* the relationship dictionaries; no artifact has id 4
GraphRelationships ==
    { [source |-> 1, target |-> 2, type |-> "Related", score |-> 80],
      [source |-> 2, target |-> 1, type |-> "FuzzyLink", score |-> 70],
      [source |-> 2, target |-> 3, type |-> "Odd", score |-> 69],
      [source |-> 1, target |-> 4, type |-> "Related", score |-> 80],
      [source |-> 4, target |-> 2, type |-> "FuzzyLink", score |-> 70],
      [source |-> 1, target |-> 1, type |-> "Related", score |-> 80] }

\* the mutation of one graph object shared by all builds
kept_overwritten(earlier, G) ==
    IF earlier.built THEN [earlier EXCEPT !.G = G] ELSE earlier

\* line 75: G is a new nx.Graph() at every call and the only graph the call
\* writes to; a graph an earlier call returned stays as it was
kept_after_build(earlier, G) == earlier

BuildArtifactGraph(artifacts, relationships) ==
    /\ pc = "idle"
    /\ \E r \in {build_artifact_graph(artifacts, relationships)} :
         /\ ret' = [raised |-> FALSE, value |-> r.G]
         /\ logged' = r.printed
         /\ kept' = kept_after_build(kept, r.G)
    /\ call' = [op |-> "build_artifact_graph", artifacts |-> artifacts,
                relationships |-> relationships]
    /\ pc' = "returned"
    /\ UNCHANGED <<supplied, weights, lib, args, db>>

\* a caller builds the graph of some fetched data
BuildCall ==
    /\ pc = "idle"
    /\ \E artifacts \in SeqsUpTo(GraphArtifacts, MaxArtifacts) :
         \E relationships \in SeqsUpTo(GraphRelationships, MaxRelationships) :
           BuildArtifactGraph(artifacts, relationships)

InitGraph ==
    /\ pc = "idle"
    /\ supplied = <<>>
    /\ weights = <<>>
    /\ call = NoCall
    /\ ret = NoRet
    /\ lib = NoLib
    /\ logged = <<>>
    /\ args = NoArgs
    /\ kept = NoBuild
    /\ db = NoDb

NextGraph == BuildCall \/ Return

SpecGraph == InitGraph /\ [][NextGraph]_vars

----------------------------------------------------------------------------
(* Builds one after another, by callers that keep a graph they were given *)

KeptArtifacts ==
    { [id |-> 1, title |-> "t1", type |-> "Artifact", description |-> "d1"],
      [id |-> 2, title |-> "t2", type |-> "Project", description |-> "d2"] }

KeptRelationships ==
    { [source |-> 1, target |-> 2, type |-> "Related", score |-> 80] }

\* the caller holds on to the graph it was returned, in place of the one it
\* held before
Keep ==
    /\ pc = "returned"
    /\ call.op = "build_artifact_graph"
    /\ kept' = [built |-> TRUE, artifacts |-> call.artifacts,
                relationships |-> call.relationships, G |-> ret.value]
    /\ pc' = "idle"
    /\ call' = NoCall
    /\ ret' = NoRet
    /\ logged' = <<>>
    /\ UNCHANGED <<supplied, weights, lib, args, db>>

BuildAgain ==
    /\ pc = "idle"
    /\ \E artifacts \in SeqsUpTo(KeptArtifacts, MaxArtifacts) :
         \E relationships \in SeqsUpTo(KeptRelationships, MaxRelationships) :
           BuildArtifactGraph(artifacts, relationships)

NextBuilds == BuildAgain \/ Keep \/ Return

SpecBuilds == InitGraph /\ [][NextBuilds]_vars

----------------------------------------------------------------------------
(* db/database.py: the relationships table and the artifacts it refers to. *)
(* created_at is left out, and with it the order of the rows of a SELECT.  *)

MaxArtifactId == 2   \* the artifacts table starts with the ids 1..MaxArtifactId
MaxRowId == 3        \* the relationships table hands out at most this many ids

\* the mutation of storing the ids as they come
ordered_as_given(artifact_id_1, artifact_id_2) == <<artifact_id_1, artifact_id_2>>

\* lines 506-507: the ids in the order they are stored in
ordered(artifact_id_1, artifact_id_2) ==
    IF artifact_id_1 > artifact_id_2
    THEN <<artifact_id_2, artifact_id_1>>
    ELSE <<artifact_id_1, artifact_id_2>>

\* UNIQUE (artifact_id_1, artifact_id_2), line 91
conflicts(d, row) ==
    \E r \in d.relationships :
       r.artifact_id_1 = row.artifact_id_1 /\ r.artifact_id_2 = row.artifact_id_2

\* FOREIGN KEY ... REFERENCES artifacts (id), lines 88-89; looked at only by
\* a connection that enforces foreign keys
orphaned(d, row) ==
    d.foreign_keys /\ ~({row.artifact_id_1, row.artifact_id_2} \subseteq d.artifacts)

\* the mutation of INSERT OR REPLACE
insert_or_replace(d, row) ==
    [d EXCEPT !.relationships =
                {r \in @ : ~(r.artifact_id_1 = row.artifact_id_1
                             /\ r.artifact_id_2 = row.artifact_id_2)}
                \cup {[row EXCEPT !.id = d.sequence + 1]},
              !.sequence = @ + 1]

\* INSERT OR IGNORE on a conflict, line 512: no row is written, but the
\* AUTOINCREMENT sequence of the table has moved on
insert_ignored(d, row) == [d EXCEPT !.sequence = @ + 1]

\* INSERT OR IGNORE INTO relationships, for a row whose id is still to be
\* given: the table after the statement, the rowcount and lastrowid of the
\* cursor, or the sqlite3.Error raised
insert(d, row) ==
    IF conflicts(d, row)
    THEN [raised |-> FALSE, db |-> insert_ignored(d, row), rowcount |-> 0,
          lastrowid |-> NoneId]
    ELSE IF orphaned(d, row)
    THEN [raised |-> TRUE, db |-> d, rowcount |-> 0, lastrowid |-> NoneId]
    ELSE [raised |-> FALSE,
          db |-> [d EXCEPT !.relationships = @ \cup {[row EXCEPT !.id = d.sequence + 1]},
                           !.sequence = @ + 1],
          rowcount |-> 1, lastrowid |-> d.sequence + 1]

\* lines 503-526; value NoneId stands for None
create_relationship(d, artifact_id_1, artifact_id_2, relationship_type, fuzzy_score, description) ==
    LET ids == ordered(artifact_id_1, artifact_id_2)
        done == insert(d, [id |-> NoneId, artifact_id_1 |-> ids[1],
                           artifact_id_2 |-> ids[2],
                           relationship_type |-> relationship_type,
                           fuzzy_score |-> fuzzy_score, description |-> description])
    IN  [db |-> done.db,
         value |-> IF ~done.raised /\ done.rowcount > 0 THEN done.lastrowid ELSE NoneId,
         printed |-> IF done.raised THEN <<"Error creating relationship">> ELSE <<>>]

\* lines 565-579: DELETE FROM relationships WHERE id = ?
delete_relationship(d, relationship_id) ==
    [db |-> [d EXCEPT !.relationships = {r \in @ : r.id # relationship_id}],
     value |-> \E r \in d.relationships : r.id = relationship_id]

\* ON DELETE CASCADE, lines 88-89: the rows that are left when the artifact
\* goes.  The rows go with it on a connection that enforces foreign keys.
cascade(d, artifact_id) ==
    IF d.foreign_keys
    THEN {r \in d.relationships :
            r.artifact_id_1 # artifact_id /\ r.artifact_id_2 # artifact_id}
    ELSE d.relationships

\* lines 317-332: DELETE FROM artifacts WHERE id = ?
delete_artifact(d, artifact_id) ==
    [db |-> [d EXCEPT !.artifacts = @ \ {artifact_id},
                      !.relationships = cascade(d, artifact_id)],
     value |-> artifact_id \in d.artifacts]

\* lines 528-546: the rows SELECT ... WHERE artifact_id_1 = ? OR
\* artifact_id_2 = ? finds
get_relationships_for_artifact(d, artifact_id) ==
    {r \in d.relationships :
       r.artifact_id_1 = artifact_id \/ r.artifact_id_2 = artifact_id}

\* the ids callers pass: those the artifacts table starts with, deleted or not
ArtifactIds == 1..MaxArtifactId

\* what callers store about a relationship: the defaults of line 503, and a
\* scored link
Payloads ==
    { [relationship_type |-> "synapse", fuzzy_score |-> 0, description |-> ""],
      [relationship_type |-> "related", fuzzy_score |-> 80, description |-> "d"] }

CreateRelationship ==
    /\ pc = "idle"
    /\ db.sequence < MaxRowId
    /\ \E artifact_id_1, artifact_id_2 \in ArtifactIds : \E p \in Payloads :
         \E r \in {create_relationship(db, artifact_id_1, artifact_id_2,
                                        p.relationship_type, p.fuzzy_score,
                                        p.description)} :
           /\ db' = r.db
           /\ ret' = Ok(r.value)
           /\ logged' = r.printed
           /\ call' = [op |-> "create_relationship", artifact_id_1 |-> artifact_id_1,
                       artifact_id_2 |-> artifact_id_2, payload |-> p, before |-> db]
    /\ pc' = "returned"
    /\ UNCHANGED <<supplied, weights, lib, args, kept>>

DeleteRelationship ==
    /\ pc = "idle"
    /\ \E relationship_id \in 1..MaxRowId :
         \E r \in {delete_relationship(db, relationship_id)} :
           /\ db' = r.db
           /\ ret' = Ok(r.value)
           /\ call' = [op |-> "delete_relationship",
                       relationship_id |-> relationship_id, before |-> db]
    /\ pc' = "returned"
    /\ logged' = <<>>
    /\ UNCHANGED <<supplied, weights, lib, args, kept>>

DeleteArtifact ==
    /\ pc = "idle"
    /\ \E artifact_id \in ArtifactIds :
         \E r \in {delete_artifact(db, artifact_id)} :
           /\ db' = r.db
           /\ ret' = Ok(r.value)
           /\ call' = [op |-> "delete_artifact", artifact_id |-> artifact_id,
                       before |-> db]
    /\ pc' = "returned"
    /\ logged' = <<>>
    /\ UNCHANGED <<supplied, weights, lib, args, kept>>

\* the database after initialize_database and MaxArtifactId calls of
\* create_artifact; create_connection issues no PRAGMA, so whether foreign
\* keys are enforced is the default the SQLite library was built with
InitDatabase ==
    /\ pc = "idle"
    /\ supplied = <<>>
    /\ weights = <<>>
    /\ call = NoCall
    /\ ret = NoRet
    /\ lib = NoLib
    /\ logged = <<>>
    /\ args = NoArgs
    /\ kept = NoBuild
    /\ \E foreign_keys \in BOOLEAN :
         db = [foreign_keys |-> foreign_keys, artifacts |-> ArtifactIds,
               relationships |-> {}, sequence |-> 0]

NextDatabase == CreateRelationship \/ DeleteRelationship \/ DeleteArtifact \/ Return

SpecDatabase == InitDatabase /\ [][NextDatabase]_vars

----------------------------------------------------------------------------
(* Claims *)

IsSimilarityCall == pc = "returned" /\ call.op = "calculate_artifact_similarity"
IsFindCall == pc = "returned" /\ call.op = "find_potential_connections"
IsBuildCall == pc = "returned" /\ call.op = "build_artifact_graph"

\* C1: calculate_artifact_similarity returns 0 whenever the two artifacts have
\* the same id, whatever their title, description, content and tags are and
\* whatever the weights are.
C1_SameIdScoresZero ==
    (/\ IsSimilarityCall
     /\ "id" \in DOMAIN call.artifact1
     /\ "id" \in DOMAIN call.artifact2
     /\ call.artifact1.id = call.artifact2.id)
    => (~ret.raised /\ ret.value = Zero)

\* two artifacts of the same id whose titles differ and whose tags overlap are
\* scored 0 by an organizer that weighs the title and the tags
C1_Witness ==
    /\ IsSimilarityCall
    /\ call.artifact1 = Art(1, "a", "a", "a", <<"Alpha">>)
    /\ call.artifact2 = Art(1, "b", "", "b", <<"alpha", "Beta">>)
    /\ weights["title"] # Zero
    /\ weights["tags"] # Zero
    /\ ~ret.raised
    /\ ret.value = Zero

\* the total of the supplied weights, added up attribute by attribute
SuppliedTotal ==
    RatAdd(RatAdd(supplied["title"], supplied["description"]),
           RatAdd(supplied["content"], supplied["tags"]))

StoredTotal ==
    RatAdd(RatAdd(weights["title"], weights["description"]),
           RatAdd(weights["content"], weights["tags"]))

IsConstructed == call.op = "__init__"

\* C9 in exact arithmetic: after construction with non-negative weights whose
\* total is not zero, every stored weight is the supplied weight divided by the
\* supplied total, and the four stored weights sum to 1.  (With the rounding
\* of binary64 the sum is not always 1: C9_StoredWeightsSumToOne.)
C9_WeightsNormalized ==
    (/\ IsConstructed
     /\ \A k \in AttrSet : RatGE(supplied[k], Zero)
     /\ SuppliedTotal # Zero)
    => (/\ ~ret.raised
        /\ pc = "idle"
        /\ \A k \in AttrSet : RatMul(weights[k], SuppliedTotal) = supplied[k]
        /\ StoredTotal = OfInt(1))

\* the default weights 0.4, 0.3, 0.3, 0.3 are stored as 4/13, 3/13, 3/13, 3/13
C9_Witness ==
    /\ IsConstructed
    /\ supplied = WeightDict(Rat(4, 10), Rat(3, 10), Rat(3, 10), Rat(3, 10))
    /\ pc = "idle"
    /\ weights = WeightDict(Rat(4, 13), Rat(3, 13), Rat(3, 13), Rat(3, 13))

\* C10: construction with all four weights zero raises nothing and stores 0.25
\* for every attribute.
C10_ZeroWeightsFallBack ==
    (/\ IsConstructed
     /\ \A k \in AttrSet : supplied[k] = Zero)
    => (/\ ~ret.raised
        /\ pc = "idle"
        /\ \A k \in AttrSet : weights[k] = Rat(1, 4))

\* an organizer was constructed from four zero weights
C10_Witness ==
    /\ IsConstructed
    /\ supplied = WeightDict(Zero, Zero, Zero, Zero)
    /\ pc = "idle"
    /\ ~ret.raised
    /\ weights = WeightDict(Rat(1, 4), Rat(1, 4), Rat(1, 4), Rat(1, 4))

----------------------------------------------------------------------------
(* Claims about calculate_artifact_similarity *)

\* the call scored two artifacts that have ids, and different ones
ScoredDifferentIds ==
    /\ IsSimilarityCall
    /\ "id" \in DOMAIN call.artifact1
    /\ "id" \in DOMAIN call.artifact2
    /\ call.artifact1.id # call.artifact2.id

\* attribute k of an artifact, '' or [] when the artifact has none
AttrOrEmpty(artifact, k) ==
    IF k \in DOMAIN artifact THEN artifact[k]
    ELSE IF k = "tags" THEN <<>> ELSE ""

\* the component score of attribute k for the pair of the call
ComponentScore(k) ==
    IF k = "tags"
    THEN calculate_tag_similarity(AttrOrEmpty(call.artifact1, k),
                                  AttrOrEmpty(call.artifact2, k)).value
    ELSE calculate_text_similarity(lib, AttrOrEmpty(call.artifact1, k),
                                        AttrOrEmpty(call.artifact2, k))

RECURSIVE WeightedSum(_)
WeightedSum(i) ==
    IF i > Len(Attrs) THEN Zero
    ELSE RatAdd(RatMul(weights[Attrs[i]], ComponentScore(Attrs[i])), WeightedSum(i + 1))

\* C13: for two artifacts with different ids the value returned is the sum,
\* over title, description, content and tags, of the stored weight of the
\* attribute times its component score, text attributes scored by
\* calculate_text_similarity and tags by calculate_tag_similarity.
C13_WeightedSumOfComponents ==
    ScoredDifferentIds => (~ret.raised /\ ret.value = WeightedSum(1))

\* weights 1/4, 0, 1/4, 1/2; title and content score 80, the descriptions
\* score 0 and the tags 50: the value is 20 + 0 + 20 + 25
C13_Witness ==
    /\ ScoredDifferentIds
    /\ weights = WeightDict(Rat(1, 4), Zero, Rat(1, 4), Rat(1, 2))
    /\ ComponentScore("title") = OfInt(80)
    /\ ComponentScore("description") = Zero
    /\ ComponentScore("content") = OfInt(80)
    /\ ComponentScore("tags") = OfInt(50)
    /\ ret = Ok(OfInt(65))

\* title, description, content and tags are all empty or absent
AllEmpty(artifact) ==
    /\ \A k \in TextAttrs : AttrOrEmpty(artifact, k) \in {"", PyNone}
    /\ Len(AttrOrEmpty(artifact, "tags")) = 0

\* the artifact with '' or [] put in for every attribute it lacks
Filled(artifact) ==
    [k \in DOMAIN artifact \cup AttrSet |-> AttrOrEmpty(artifact, k)]

\* C14: for two artifacts with different ids, the value is 0 when on one of
\* them title, description, content and tags are all empty or absent; an
\* absent attribute does not raise and scores as '' (or as no tags) does.
C14_EmptySideScoresZero ==
    ScoredDifferentIds =>
      /\ ~ret.raised
      /\ (AllEmpty(call.artifact1) \/ AllEmpty(call.artifact2)) => ret.value = Zero
      /\ ret = calculate_artifact_similarity(weights, lib, Filled(call.artifact1),
                                              Filled(call.artifact2))

\* an artifact with every attribute set against one that has only an id
\* scores 0 under weights that are all positive
C14_Witness ==
    /\ ScoredDifferentIds
    /\ call.artifact1 = Art(1, "a", "a", "a", <<"Alpha">>)
    /\ call.artifact2 = [kind |-> "object", id |-> 3]
    /\ \A k \in AttrSet : weights[k] # Zero
    /\ ret = Ok(Zero)

----------------------------------------------------------------------------
(* Claims about find_potential_connections *)

\* a candidate the scan has to pass over: None, without an id attribute, with
\* id None, or with the id of the target
Skippable(target_artifact, artifact) ==
    \/ artifact.kind = "NoneType"
    \/ "id" \notin DOMAIN artifact
    \/ artifact.id = NoneId
    \/ ("id" \in DOMAIN target_artifact /\ artifact.id = target_artifact.id)

Positions == 1..Len(call.all_artifacts)
Unskipped == {i \in Positions : ~Skippable(call.target_artifact, call.all_artifacts[i])}

\* what scoring the candidate at position i against the target gives
ScoreAt(i) ==
    calculate_artifact_similarity(weights, lib, call.target_artifact, call.all_artifacts[i])

Scorable == {i \in Unskipped : ~ScoreAt(i).raised}
AtLeastThreshold(score) == score.n >= call.threshold * score.d
Qualifying == {i \in Scorable : AtLeastThreshold(ScoreAt(i).value)}

Occurrences(seq, x) == Cardinality({j \in 1..Len(seq) : seq[j] = x})
InSeq(seq, x) == \E j \in 1..Len(seq) : seq[j] = x

\* the scores of the candidates that are not skipped, by position
Scores == [i \in Unskipped |-> ScoreAt(i)]

\* C2: the result holds exactly the candidates that are not skipped, can be
\* scored and score at least the threshold, each with its score and as often
\* as it qualifies; a score equal to the threshold qualifies.
C2_ExactlyThoseAtThreshold ==
    IsFindCall =>
      LET sc == Scores
          qualifying == {i \in DOMAIN sc :
                           ~sc[i].raised /\ AtLeastThreshold(sc[i].value)}
          expected == [i \in qualifying |-> <<call.all_artifacts[i], sc[i].value>>]
      IN  /\ ~ret.raised
          /\ Len(ret.value) = Cardinality(qualifying)
          /\ \A j \in 1..Len(ret.value) :
               /\ AtLeastThreshold(ret.value[j][2])
               /\ \E i \in qualifying : ret.value[j] = expected[i]
          /\ \A i \in qualifying :
               Occurrences(ret.value, expected[i])
                 = Cardinality({k \in qualifying : expected[k] = expected[i]})

\* candidates scoring 80, 70 and 69 against threshold 70: the first two are
\* returned, the one at exactly 70 included
C2_Witness ==
    /\ IsFindCall
    /\ call.threshold = 70
    /\ Len(call.all_artifacts) = 3
    /\ Unskipped = {1, 2, 3}
    /\ Scorable = {1, 2, 3}
    /\ ScoreAt(1).value = OfInt(80)
    /\ ScoreAt(2).value = OfInt(70)
    /\ ScoreAt(3).value = OfInt(69)
    /\ ret.value = <<<<call.all_artifacts[1], OfInt(80)>>,
                     <<call.all_artifacts[2], OfInt(70)>>>>

\* C3: the result is ordered by score, descending: of two adjacent entries
\* the earlier one's score is at least the later one's.
C3_DescendingByScore ==
    IsFindCall =>
      /\ ~ret.raised
      /\ \A j \in 1..(Len(ret.value) - 1) :
           ret.value[j][2].n * ret.value[j + 1][2].d
             >= ret.value[j + 1][2].n * ret.value[j][2].d

\* two candidates given in ascending order of score, 70 then 80, come back
\* reversed
C3_Witness ==
    /\ IsFindCall
    /\ Len(call.all_artifacts) = 2
    /\ Scorable = {1, 2}
    /\ ScoreAt(1).value = OfInt(70)
    /\ ScoreAt(2).value = OfInt(80)
    /\ ~ret.raised
    /\ ret.value = <<<<call.all_artifacts[2], OfInt(80)>>,
                     <<call.all_artifacts[1], OfInt(70)>>>>

\* C4 as stated: of two returned candidates with equal scores the one with
\* the smaller id comes first, whatever the order of the input.
C4_TiesBySmallerId ==
    IsFindCall =>
      \A j, k \in 1..Len(ret.value) :
        (j < k /\ ret.value[j][2] = ret.value[k][2])
          => ret.value[j][1].id <= ret.value[k][1].id

\* C4 as amended: two returned candidates with equal scores keep the order
\* they had in the input; the smaller id comes first only when it came first
\* in the input.
C4_TiesKeepInputOrder ==
    IsFindCall =>
      LET sc == Scores
          qualifying == {i \in DOMAIN sc :
                           ~sc[i].raised /\ AtLeastThreshold(sc[i].value)}
      IN  /\ ~ret.raised
          /\ \A j, k \in 1..Len(ret.value) :
               (j < k /\ ret.value[j][2] = ret.value[k][2])
                 => \E p, q \in qualifying :
                      /\ p < q
                      /\ call.all_artifacts[p] = ret.value[j][1]
                      /\ call.all_artifacts[q] = ret.value[k][1]
                      /\ sc[p].value = sc[q].value

\* two candidates tie, the one with the larger id is first in the input and
\* first in the result
C4_Witness ==
    /\ IsFindCall
    /\ Len(call.all_artifacts) = 2
    /\ Scorable = {1, 2}
    /\ ScoreAt(1).value = ScoreAt(2).value
    /\ call.all_artifacts[1].id > call.all_artifacts[2].id
    /\ ~ret.raised
    /\ Len(ret.value) = 2
    /\ ret.value[1][1] = call.all_artifacts[1]
    /\ ret.value[2][1] = call.all_artifacts[2]

ErrorsLoggedFor(i) ==
    Cardinality({j \in 1..Len(logged) :
        logged[j].level = "ERROR" /\ logged[j].position = i})

\* C5: a candidate that is None, has no id attribute, has id None or has the
\* id of the target is neither scored nor returned and no error is logged for
\* it; the scan goes on, so every other candidate is scored.
C5_SkipsSilently ==
    IsFindCall =>
      /\ ~ret.raised
      /\ \A i \in Positions \ Unskipped :
           /\ ~InSeq(ret.scored, i)
           /\ ErrorsLoggedFor(i) = 0
      /\ \A j \in 1..Len(ret.value) :
           ~Skippable(call.target_artifact, ret.value[j][1])
      /\ \A i \in Unskipped : InSeq(ret.scored, i)

\* None, then a candidate with the id of the target, then a candidate that
\* qualifies: only the last one is scored and returned, nothing is logged as
\* an error
C5_Witness ==
    /\ IsFindCall
    /\ Len(call.all_artifacts) = 3
    /\ call.all_artifacts[1] = NoneArtifact
    /\ "id" \in DOMAIN call.target_artifact
    /\ "id" \in DOMAIN call.all_artifacts[2]
    /\ call.all_artifacts[2].id = call.target_artifact.id
    /\ call.all_artifacts[2] # call.target_artifact
    /\ ret.scored = <<3>>
    /\ Len(ret.value) = 1
    /\ ret.value[1][1] = call.all_artifacts[3]
    /\ \A i \in Positions : ErrorsLoggedFor(i) = 0

\* C6: an exception raised while one candidate is scored does not reach the
\* caller: that candidate is left out of the result, one error is logged for
\* it, and every other candidate is scored, and returned when its score meets
\* the threshold.
C6_ScoringErrorsAreContained ==
    IsFindCall =>
      LET sc == Scores
          returned == {ret.value[j][1] : j \in 1..Len(ret.value)}
      IN  /\ ~ret.raised
          /\ \A i \in DOMAIN sc :
               IF sc[i].raised
               THEN /\ ErrorsLoggedFor(i) = 1
                    /\ call.all_artifacts[i] \notin returned
               ELSE /\ InSeq(ret.scored, i)
                    /\ ErrorsLoggedFor(i) = 0
                    /\ AtLeastThreshold(sc[i].value)
                         => InSeq(ret.value, <<call.all_artifacts[i], sc[i].value>>)

\* a candidate whose tags cannot be lower-cased stands between two that
\* qualify: both are returned and one error is logged, for the middle one
C6_Witness ==
    /\ IsFindCall
    /\ Len(call.all_artifacts) = 3
    /\ Unskipped = {1, 2, 3}
    /\ Scorable = {1, 3}
    /\ ScoreAt(2).value = "AttributeError"
    /\ ~ret.raised
    /\ Len(ret.value) = 2
    /\ ErrorsLoggedFor(2) = 1
    /\ ErrorsLoggedFor(1) = 0
    /\ ErrorsLoggedFor(3) = 0

\* C18: find_potential_connections called with an empty candidate sequence,
\* or with None for it, returns an empty list and raises no error, for every
\* target and threshold; no candidate is scored and no error is logged.
C18_NoCandidatesNoConnections ==
    (IsFindCall /\ (call.absent \/ Len(call.all_artifacts) = 0))
    => (/\ ~ret.raised
        /\ ret.value = <<>>
        /\ ret.scored = <<>>
        /\ \A j \in 1..Len(logged) : logged[j].level # "ERROR")

\* None for the candidates, and a target that has no id
C18_Witness ==
    /\ IsFindCall
    /\ call.absent
    /\ "id" \notin DOMAIN call.target_artifact
    /\ ~ret.raised
    /\ ret.value = <<>>

\* C19: when the caller passes no threshold the scan filters with threshold
\* 70: it returns what the same call with threshold=70 returns.
C19_DefaultThresholdIsSeventy ==
    (IsFindCall /\ ~call.passed)
    => LET same == find_potential_connections(weights, lib, call.target_artifact,
                       call.absent, call.all_artifacts, 70)
       IN  /\ ret.raised = same.raised
           /\ ret.value = same.value
           /\ ret.scored = same.scored

\* without a threshold, candidates scoring 70 and 69: the first is returned,
\* the second is not
C19_Witness ==
    /\ IsFindCall
    /\ ~call.passed
    /\ Len(call.all_artifacts) = 2
    /\ Scorable = {1, 2}
    /\ ScoreAt(1).value = OfInt(70)
    /\ ScoreAt(2).value = OfInt(69)
    /\ ret.value = <<<<call.all_artifacts[1], OfInt(70)>>>>

Reverse(seq) == [i \in 1..Len(seq) |-> seq[Len(seq) + 1 - i]]

\* C27: the descending sort of find_potential_connections is stable.  The
\* candidate at input position p stands in the result behind exactly the
\* qualifying candidates that score more and those of its own score that come
\* before it in the input; and two tied candidates handed over in the other
\* order come back in the other order.
C27_StableDescendingSort ==
    (IsFindCall /\ ~ret.raised) =>
      LET sc == Scores
          qualifying == {i \in DOMAIN sc :
                           ~sc[i].raised /\ AtLeastThreshold(sc[i].value)}
          Ahead(p) == {q \in qualifying :
                         \/ RatGT(sc[q].value, sc[p].value)
                         \/ (sc[q].value = sc[p].value /\ q < p)}
      IN  /\ Len(ret.value) = Cardinality(qualifying)
          /\ \A p \in qualifying :
               ret.value[Cardinality(Ahead(p)) + 1] = <<call.all_artifacts[p], sc[p].value>>
          /\ (Len(call.all_artifacts) = 2 /\ qualifying = {1, 2}
                                          /\ sc[1].value = sc[2].value)
               => find_potential_connections(weights, lib, call.target_artifact, FALSE,
                                             Reverse(call.all_artifacts),
                                             call.threshold).value
                    = Reverse(ret.value)

\* a tie around a better candidate: the input holds a candidate, a better one
\* and one that ties with the first and has a smaller id; the better one comes
\* back first and the tied ones behind it in their input order
C27_Witness ==
    /\ IsFindCall
    /\ ~ret.raised
    /\ Len(call.all_artifacts) = 3
    /\ Len(ret.value) = 3
    /\ ret.value[1][1] = call.all_artifacts[2]
    /\ ret.value[2][1] = call.all_artifacts[1]
    /\ ret.value[3][1] = call.all_artifacts[3]
    /\ ret.value[2][2] = ret.value[3][2]
    /\ RatGT(ret.value[1][2], ret.value[2][2])
    /\ ret.value[2][1].id > ret.value[3][1].id

\* what the scan that has returned gives with another threshold
WithThreshold(threshold) ==
    find_potential_connections(weights, lib, call.target_artifact, call.absent,
                               call.all_artifacts, threshold)

IsPrefix(short, long) ==
    /\ Len(short) <= Len(long)
    /\ \A i \in 1..Len(short) : short[i] = long[i]

\* C28: raising the threshold only shortens the result from the end.  For
\* the target, candidates and weights of a scan that has returned, the
\* result for a threshold that is higher by ten is a prefix of the result,
\* and the result is a prefix of the one for a threshold that is lower by
\* one.
C28_HigherThresholdGivesPrefix ==
    (IsFindCall /\ ~ret.raised) =>
      /\ IsPrefix(WithThreshold(call.threshold + 10).value, ret.value)
      /\ IsPrefix(ret.value, WithThreshold(call.threshold - 1).value)

\* scores 70 and 80 at threshold 70, in that order in the input: both come
\* back, the 80 first, and it alone is left at threshold 80
C28_Witness ==
    /\ IsFindCall
    /\ ~ret.raised
    /\ call.threshold = 70
    /\ Len(call.all_artifacts) = 2
    /\ Len(ret.value) = 2
    /\ ret.value[1] = <<call.all_artifacts[2], OfInt(80)>>
    /\ ret.value[2] = <<call.all_artifacts[1], OfInt(70)>>
    /\ WithThreshold(80).value = <<ret.value[1]>>

----------------------------------------------------------------------------
(* Claims about build_artifact_graph *)

SuppliedIds == {call.artifacts[i].id : i \in 1..Len(call.artifacts)}
Endpoints(rel) == {rel.source, rel.target}

\* a relationship one of whose ends is no supplied artifact
Dangling(rel) == ~(Endpoints(rel) \subseteq SuppliedIds)

\* C7: every edge of the built graph has both endpoints in the node set, and
\* no edge references an id that is not the id of a supplied artifact.
C7_EdgesJoinSuppliedArtifacts ==
    IsBuildCall =>
      \A e \in DOMAIN ret.value.edges :
        /\ e \subseteq DOMAIN ret.value.nodes
        /\ e \subseteq SuppliedIds

\* a graph with an edge, built from a list that also held a relationship to
\* the absent artifact 4
C7_Witness ==
    /\ IsBuildCall
    /\ \E i \in 1..Len(call.relationships) : Dangling(call.relationships[i])
    /\ DOMAIN ret.value.edges # {}
    /\ 4 \notin DOMAIN ret.value.nodes

\* C8: a relationship whose source or target is no node is dropped with one
\* warning and without raising; the nodes and the other edges are what they
\* are without it, and the relationships behind it are still processed.
C8_DanglingRelationshipsAreDropped ==
    IsBuildCall =>
      /\ ~ret.raised
      /\ logged = [j \in 1..Len(SelectSeq(call.relationships, Dangling)) |->
                     [level |-> "print",
                      source |-> SelectSeq(call.relationships, Dangling)[j].source,
                      target |-> SelectSeq(call.relationships, Dangling)[j].target]]
      /\ DOMAIN ret.value.nodes = SuppliedIds
      /\ DOMAIN ret.value.edges =
           {Endpoints(call.relationships[i]) :
              i \in {k \in 1..Len(call.relationships) : ~Dangling(call.relationships[k])}}
      /\ ret.value =
           build_artifact_graph(call.artifacts,
               SelectSeq(call.relationships, LAMBDA rel : ~Dangling(rel))).G

\* three artifacts and one relationship to the absent artifact 4: three
\* nodes, no edge, one warning
C8_Witness ==
    /\ IsBuildCall
    /\ Len(call.artifacts) = 3
    /\ SuppliedIds = {1, 2, 3}
    /\ Len(call.relationships) = 1
    /\ call.relationships[1].target = 4
    /\ Cardinality(DOMAIN ret.value.nodes) = 3
    /\ DOMAIN ret.value.edges = {}
    /\ Len(logged) = 1

\* the last artifact supplied with id n: G.add_node replaces the attributes of
\* a node that is already there
LastWithId(n) ==
    call.artifacts[CHOOSE i \in 1..Len(call.artifacts) :
                     /\ call.artifacts[i].id = n
                     /\ \A j \in (i + 1)..Len(call.artifacts) : call.artifacts[j].id # n]

\* the artifacts with the type of every one replaced
Retyped(artifacts, type) ==
    [i \in 1..Len(artifacts) |-> [artifacts[i] EXCEPT !.type = type]]

\* C20: the graph has one node per supplied artifact, keyed by the artifact
\* id and carrying its title, type and description; the type selects the color
\* (lightgray for a type NODE_COLORS does not know) and nothing else: with
\* other types the graph has the same nodes and the same edges.
C20_OneNodePerArtifact ==
    IsBuildCall =>
      LET G == ret.value IN
      /\ DOMAIN G.nodes = SuppliedIds
      /\ (Cardinality(SuppliedIds) = Len(call.artifacts))
           => Cardinality(DOMAIN G.nodes) = Len(call.artifacts)
      /\ \A n \in SuppliedIds :
           /\ G.nodes[n].title = LastWithId(n).title
           /\ G.nodes[n].type = LastWithId(n).type
           /\ G.nodes[n].description = LastWithId(n).description
           /\ G.nodes[n].color =
                IF LastWithId(n).type \in {"Project", "Artifact", "Tag", "Relationship"}
                THEN NODE_COLORS[LastWithId(n).type]
                ELSE "lightgray"
      /\ \A type \in {"Project", "Mystery"} :
           LET H == build_artifact_graph(Retyped(call.artifacts, type),
                                         call.relationships).G
           IN  /\ DOMAIN H.nodes = DOMAIN G.nodes
               /\ H.edges = G.edges

\* three artifacts, one of a type without a color of its own: three nodes,
\* that one lightgray, and an edge between two of them
C20_Witness ==
    /\ IsBuildCall
    /\ Len(call.artifacts) = 3
    /\ SuppliedIds = {1, 2, 3}
    /\ DOMAIN ret.value.nodes = {1, 2, 3}
    /\ ret.value.nodes[1].type = "Mystery"
    /\ ret.value.nodes[1].color = "lightgray"
    /\ ret.value.nodes[2].color = "skyblue"
    /\ ret.value.nodes[2].title = "t2"
    /\ {1, 2} \in DOMAIN ret.value.edges

\* the positions of the relationships between the two ends of e, both ends
\* being supplied artifacts
Between(e) ==
    {i \in 1..Len(call.relationships) :
       Endpoints(call.relationships[i]) = e /\ ~Dangling(call.relationships[i])}

Last(positions) == CHOOSE i \in positions : \A j \in positions : j <= i

\* C29: the built graph has one edge per unordered pair of nodes that some
\* relationship joins, in either direction, so as many edges as there are
\* such pairs; the edge carries the type and score of the last relationship
\* of its pair and the color of that type.
C29_OneEdgePerPairLastWins ==
    IsBuildCall =>
      LET joined == {Endpoints(call.relationships[i]) : i \in 1..Len(call.relationships)}
          pairs == {e \in joined : Between(e) # {}}
      IN  /\ DOMAIN ret.value.edges = pairs
          /\ Cardinality(DOMAIN ret.value.edges) = Cardinality(pairs)
          /\ \A e \in pairs :
               LET rel == call.relationships[Last(Between(e))]
               IN  ret.value.edges[e] =
                     [type |-> rel.type, score |-> rel.score,
                      color |-> IF rel.type \in DOMAIN EDGE_COLORS
                                THEN EDGE_COLORS[rel.type] ELSE "black"]

\* 1 - 2 as Related with score 80, then 2 - 1 as FuzzyLink with score 70:
\* one edge, blue, with score 70
C29_Witness ==
    /\ IsBuildCall
    /\ Len(call.relationships) = 2
    /\ call.relationships[1] = [source |-> 1, target |-> 2, type |-> "Related", score |-> 80]
    /\ call.relationships[2] = [source |-> 2, target |-> 1, type |-> "FuzzyLink", score |-> 70]
    /\ DOMAIN ret.value.edges = {{1, 2}}
    /\ ret.value.edges[{1, 2}] = [type |-> "FuzzyLink", score |-> 70, color |-> "blue"]

----------------------------------------------------------------------------
(* Claims about the rounded arithmetic *)

\* the stored weights added up as sum(self.weights.values()) adds them
StoredTotal64 ==
    FloatAdd(FloatAdd(FloatAdd(weights["title"], weights["description"]),
                      weights["content"]),
             weights["tags"])

\* C9 on the code as it computes: after construction with non-negative
\* weights whose total is not zero, every stored weight is the supplied weight
\* divided by the supplied total, and the four stored weights sum to 1.
C9_StoredWeightsSumToOne ==
    (IsConstructed /\ total_weight64(supplied) # 0)
    => (/\ \A k \in AttrSet :
             weights[k] = IntTrueDiv(supplied[k], total_weight64(supplied))
        /\ StoredTotal64 = FloatOfInt(1))

\* the weights of the organizer constructed from the supplied weights times c
ScaledWeights(c) == _normalize_weights64([k \in AttrSet |-> c * supplied[k]])

C12_ScoreWithinBounds ==
    (IsSimilarityCall /\ ~ret.raised)
    => (FloatLeq(Float0, ret.value) /\ FloatLeq(ret.value, FloatOfInt(100)))

----------------------------------------------------------------------------
(* Claims about the comparators *)

IsTagCall == pc = "returned" /\ call.op = "calculate_tag_similarity"
IsTextCall == pc = "returned" /\ call.op = "calculate_text_similarity"

\* the names of the tags, with the capitalised form of each
Capital == [alpha |-> "Alpha", beta |-> "Beta", gamma |-> "Gamma"]
TagNames == DOMAIN Capital

\* the list holds the name in one case or the other
Holds(tags, name) == \E i \in 1..Len(tags) : tags[i] = name \/ tags[i] = Capital[name]

CommonNames == {name \in TagNames : Holds(call.tags1, name) /\ Holds(call.tags2, name)}
AllNames == {name \in TagNames : Holds(call.tags1, name) \/ Holds(call.tags2, name)}

\* C15: calculate_tag_similarity of two non-empty tag lists returns 100 times
\* the Jaccard index of the two lower-cased tag sets, the number of names in
\* both divided by the number of names in either, and 0 when a list is empty.
C15_HundredTimesJaccard ==
    IsTagCall =>
      IF Len(call.tags1) = 0 \/ Len(call.tags2) = 0
      THEN ret = Ok(Float0)
      ELSE ret = Ok(FloatMul(IntTrueDiv(Cardinality(CommonNames), Cardinality(AllNames)),
                             FloatOfInt(100)))

\* [Alpha, Beta] against [Alpha, Gamma]: one name of three in common; the
\* value lies between 33 and 34
C15_Witness ==
    /\ IsTagCall
    /\ call.tags1 = <<"Alpha", "Beta">>
    /\ call.tags2 = <<"Alpha", "Gamma">>
    /\ Cardinality(CommonNames) = 1
    /\ Cardinality(AllNames) = 3
    /\ ~ret.raised
    /\ FloatLeq(FloatOfInt(33), ret.value)
    /\ FloatLeq(ret.value, FloatOfInt(34))

\* the tag in the other letter case
SwapCase(tag) == IF tag \in DOMAIN UpperToLower THEN UpperToLower[tag] ELSE Capital[tag]
WithCaseChanged(tags, i) == [tags EXCEPT ![i] = SwapCase(@)]

\* C16: calculate_tag_similarity is case-insensitive: changing the letter case
\* of any tag in either list does not change the result, and [Alpha, Beta]
\* against [alpha, Gamma] scores one third, times 100.
C16_CaseInsensitive ==
    IsTagCall =>
      /\ \A i \in 1..Len(call.tags1) :
           calculate_tag_similarity64(WithCaseChanged(call.tags1, i), call.tags2) = ret
      /\ \A i \in 1..Len(call.tags2) :
           calculate_tag_similarity64(call.tags1, WithCaseChanged(call.tags2, i)) = ret
      /\ (call.tags1 = <<"Alpha", "Beta">> /\ call.tags2 = <<"alpha", "Gamma">>)
           => ret = Ok(FloatMul(IntTrueDiv(1, 3), FloatOfInt(100)))

\* the example of the claim: the two lists share alpha in different cases
C16_Witness ==
    /\ IsTagCall
    /\ call.tags1 = <<"Alpha", "Beta">>
    /\ call.tags2 = <<"alpha", "Gamma">>
    /\ ret = Ok(FloatMul(IntTrueDiv(1, 3), FloatOfInt(100)))
    /\ ret.value # Float0

\* C30: calculate_tag_similarity is symmetric in its two arguments, gives the
\* same for a list in which a tag is repeated, and returns 100 exactly when
\* the two lists hold the same names, letter case aside, and hold one at
\* least.
C30_SymmetricAndHundredForEqualSets ==
    IsTagCall =>
      /\ calculate_tag_similarity64(call.tags2, call.tags1) = ret
      /\ \A i \in 1..Len(call.tags1) :
           calculate_tag_similarity64(Append(call.tags1, call.tags1[i]), call.tags2) = ret
      /\ \A i \in 1..Len(call.tags2) :
           calculate_tag_similarity64(call.tags1, Append(call.tags2, call.tags2[i])) = ret
      /\ (ret = Ok(FloatOfInt(100)))
           <=> (/\ AllNames # {}
                /\ \A name \in TagNames :
                     Holds(call.tags1, name) <=> Holds(call.tags2, name))

\* the same two names in another order and another case, one of them twice
\* in a list of its own: 100
C30_Witness ==
    /\ IsTagCall
    /\ call.tags1 = <<"Beta", "Alpha">>
    /\ call.tags2 = <<"alpha", "Beta">>
    /\ ret = Ok(FloatOfInt(100))
    /\ calculate_tag_similarity64(<<"Beta", "Alpha", "Beta">>, call.tags2) = ret

\* C17: calculate_text_similarity returns 0 whenever one of its two inputs is
\* the empty string or None, whatever the other input is; the library is not
\* asked.
C17_EmptyTextScoresZero ==
    (/\ IsTextCall
     /\ (call.text1 \in {"", PyNone} \/ call.text2 \in {"", PyNone}))
    => (ret = Ok(Float0) /\ lib = NoLib)

\* None against a text, and nothing comes of it
C17_Witness ==
    /\ IsTextCall
    /\ call.text1 = PyNone
    /\ call.text2 = "a"
    /\ ret = Ok(Float0)

----------------------------------------------------------------------------
(* Claims about the relationships table *)

IsCreateCall == pc = "returned" /\ call.op = "create_relationship"
IsDeleteArtifactCall == pc = "returned" /\ call.op = "delete_artifact"

Pair(r) == {r.artifact_id_1, r.artifact_id_2}

\* what the call that has returned would have done with its two ids exchanged
Exchanged ==
    create_relationship(call.before, call.artifact_id_2, call.artifact_id_1,
                        call.payload.relationship_type, call.payload.fuzzy_score,
                        call.payload.description)

\* C22: after any sequence of create_relationship and delete_relationship
\* calls no stored row has the larger artifact id in artifact_id_1, no two
\* rows are about the same unordered pair of ids, and
\* create_relationship(a, b) does what create_relationship(b, a) does.
C22_OneRowPerUnorderedPair ==
    /\ \A r \in db.relationships : r.artifact_id_1 <= r.artifact_id_2
    /\ \A r, q \in db.relationships : Pair(r) = Pair(q) => r = q
    /\ IsCreateCall =>
         /\ Exchanged.db = db
         /\ Exchanged.value = ret.value

\* (1, 2) was stored and deleted, and create_relationship(2, 1) stores it anew
C22_Witness ==
    /\ IsCreateCall
    /\ call.artifact_id_1 = 2
    /\ call.artifact_id_2 = 1
    /\ ret.value = 2
    /\ call.before.relationships = {}
    /\ \E r \in db.relationships :
         r.id = 2 /\ r.artifact_id_1 = 1 /\ r.artifact_id_2 = 2

\* the row the pair of the call is stored in before the call
StoredBefore ==
    {r \in call.before.relationships : Pair(r) = {call.artifact_id_1, call.artifact_id_2}}

\* C23: create_relationship for a pair that already has a row, in either
\* order of the arguments, returns None, adds no row and leaves the type,
\* score and description of the row as they were.
C23_DuplicateIsRejected ==
    (IsCreateCall /\ StoredBefore # {}) =>
        /\ ret.value = NoneId
        /\ db.relationships = call.before.relationships

\* (1, 2) is stored as a synapse, and create_relationship(2, 1, "related",
\* 80, "d") comes back with None
C23_Witness ==
    /\ IsCreateCall
    /\ call.artifact_id_1 = 2
    /\ call.artifact_id_2 = 1
    /\ call.payload.relationship_type = "related"
    /\ \E r \in StoredBefore : r.relationship_type = "synapse" /\ r \in db.relationships
    /\ ret.value = NoneId

\* C24: no stored relationship connects an artifact to itself, calls of
\* create_relationship with twice the same id included.
C24_NoSelfRelationship ==
    \A r \in db.relationships : r.artifact_id_1 # r.artifact_id_2

\* C25: after delete_artifact(a) has returned True no stored relationship
\* has a on either side, and get_relationships_for_artifact(a) is empty.
C25_DeletedArtifactHasNoRelationships ==
    (IsDeleteArtifactCall /\ ret.value) =>
        get_relationships_for_artifact(db, call.artifact_id) = {}

====
